---- MODULE Spec2Model ----
(***************************************************************************)
(* TiDB HTAP Insights dashboard: the query classifier and simulator        *)
(* (runQuery), the Live Query Client (executeLiveQuery) and the SQL Lab    *)
(* handler of the App component (handleRunQuery).                          *)
(*                                                                         *)
(* Text is a sequence of one-character strings, so that toUpperCase and    *)
(* includes are computed character by character.  A JavaScript number is   *)
(* a binary floating-point value with FloatBits significant bits, held as  *)
(* an integer count of units of 2^-FloatBits; every arithmetic result is   *)
(* rounded to nearest, ties to even, as IEEE 754 does.                     *)
(***************************************************************************)
EXTENDS Integers, Sequences, FiniteSets, TLC

(***************************************************************************)
(* Bounds of the model.                                                    *)
(***************************************************************************)
\* significant bits of a number (binary64 has 53; Math.random() is a
\* multiple of 2^-FloatBits below 1)
FloatBits == 8
\* an SQL input is the concatenation of at most MaxFrags fragments
MaxFrags == 2
\* query runs started in one session of the App
MaxRuns == 2
\* connection tests started in one session of the App
MaxTests == 2
\* largest wall-clock time, in ms, between request start and response
MaxElapsed == 1
\* clicks on the sample-credentials button in one session of the App
MaxLoads == 1
\* edits of the editor text, of the credential fields and of the live switch
\* in one session of the App
MaxEdits == 2
\* ticks of the 2-second refresh interval in one session of the App
MaxTicks == 2
\* calls of getAIInsights after which the refresh button is left alone
MaxInsights == 3
\* log-writing events of the session before the part of it that is explored
MaxHistory == 26

(***************************************************************************)
(* Text                                                                    *)
(***************************************************************************)
LowerLetters ==
    <<"a","b","c","d","e","f","g","h","i","j","k","l","m",
      "n","o","p","q","r","s","t","u","v","w","x","y","z">>

UpperLetters ==
    <<"A","B","C","D","E","F","G","H","I","J","K","L","M",
      "N","O","P","Q","R","S","T","U","V","W","X","Y","Z">>

\* String.prototype.toUpperCase on one character
UpperChar(c) ==
    IF \E i \in 1..26 : LowerLetters[i] = c
    THEN UpperLetters[CHOOSE i \in 1..26 : LowerLetters[i] = c]
    ELSE c

\* String.prototype.toUpperCase
toUpperCase(s) == [i \in 1..Len(s) |-> UpperChar(s[i])]

\* String.prototype.includes
includes(s, sub) ==
    \E i \in 0..(Len(s) - Len(sub)) : SubSeq(s, i + 1, i + Len(sub)) = sub

GROUP_BY == <<"G","R","O","U","P"," ","B","Y">>
JOIN == <<"J","O","I","N">>
SUM_ == <<"S","U","M","(">>
COUNT_ == <<"C","O","U","N","T","(">>


\* the classification without the normalisation to upper case
SimIsAnalyticalCaseSensitive(sql) ==
    \/ includes(sql, GROUP_BY)
    \/ includes(sql, SUM_)
    \/ includes(sql, JOIN)
    \/ includes(sql, COUNT_)

\* const isAnalytical = upperSql.includes('GROUP BY') || upperSql.includes('SUM(')
\*                   || upperSql.includes('JOIN') || upperSql.includes('COUNT(')
SimIsAnalytical(sql) ==
    LET upperSql == toUpperCase(sql)
    IN  \/ includes(upperSql, GROUP_BY)
        \/ includes(upperSql, SUM_)
        \/ includes(upperSql, JOIN)
        \/ includes(upperSql, COUNT_)

(***************************************************************************)
(* Numbers                                                                 *)
(***************************************************************************)
RECURSIVE Pow2(_)
Pow2(n) == IF n = 0 THEN 1 ELSE 2 * Pow2(n - 1)

\* the integer that stands for 1.0
Unit == Pow2(FloatBits)

\* the number x (an integer literal of the source) in units
Num(x) == x * Unit

RECURSIVE BitLength(_)
BitLength(n) == IF n = 0 THEN 0 ELSE 1 + BitLength(n \div 2)

\* the exact value n rounded to FloatBits significant bits, to nearest,
\* ties to even
Round(n) ==
    LET drop == IF BitLength(n) > FloatBits THEN BitLength(n) - FloatBits ELSE 0
        q    == Pow2(drop)
        lo   == (n \div q) * q
        rem  == n - lo
    IN  IF 2 * rem < q THEN lo
        ELSE IF 2 * rem > q THEN lo + q
        ELSE IF (n \div q) % 2 = 0 THEN lo ELSE lo + q

\* a + b and a * c of two numbers, c an integer literal
Add(a, b) == Round(a + b)
Mul(a, c) == Round(a * c)

\* Math.floor, as an integer
Floor(a) == a \div Unit

\* Number.prototype.toFixed(2): the decimal string, held as its whole part
\* and its two decimals
toFixed2(a) ==
    LET h == (2 * 100 * a + Unit) \div (2 * Unit)
    IN  [whole |-> h \div 100, decimals |-> h % 100]

\* The values of Math.random(): multiples of 2^-FloatBits in [0, 1)
RandomValues == 0..(Unit - 1)

\* draws of Math.random() one call of runQuery makes at most: the delay,
\* three for each of the 5 analytical rows, executionTimeMs
MaxDraws == 1 + 3 * 5 + 1

\* A source of random numbers: the k-th call of Math.random() returns
\* RandomSource(seed)[k].  Every value is returned at every position for
\* some seed.
RandomSource(seed) == [k \in 1..MaxDraws |-> (seed + 7 * (k - 1)) % Unit]

(***************************************************************************)
(* The simulator (services/tidbSimulator)                                  *)
(***************************************************************************)
Categories == <<"Electronics", "Home", "Apparel", "Books", "Toys">>

AnalyticalColumns == <<"category", "total_sales", "avg_price", "order_count">>
TransactionalColumns == <<"id", "user_id", "amount", "status", "created_at">>

\* new Date().toISOString() at clock value now
toISOString(now) == [iso |-> now]

\* row i (0-based) of an analytical result; d is the index of its first draw
AnalyticalRow(i, rnd, d) ==
    [category    |-> Categories[i + 1],
     total_sales |-> Floor(Mul(rnd[d], 100000)),
     avg_price   |-> toFixed2(Mul(rnd[d + 1], 200)),
     order_count |-> Floor(Mul(rnd[d + 2], 500))]

\* the transactional row numbered from 1
TransactionalRowOneBased(i, rnd, d, now) ==
    [id         |-> 1000 + i + 1,
     user_id    |-> 500 + i + 1,
     amount     |-> toFixed2(Mul(rnd[d], 1000)),
     status     |-> "completed",
     created_at |-> toISOString(now)]

\* row i (0-based) of a transactional result; d is the index of its draw
TransactionalRow(i, rnd, d, now) ==
    [id         |-> 1000 + i,
     user_id    |-> 500 + i,
     amount     |-> toFixed2(Mul(rnd[d], 1000)),
     status     |-> "completed",
     created_at |-> toISOString(now)]

\* error: <<>> when the field is absent or undefined, <<m>> when it is m
NoError == <<>>

\* const columns = isAnalytical ? [...] : [...]
SimColumns(isAnalytical) ==
    IF isAnalytical THEN AnalyticalColumns ELSE TransactionalColumns

\* the row counts exchanged
SimRowCountSwapped(isAnalytical) == IF isAnalytical THEN 10 ELSE 5

\* Array.from({ length: isAnalytical ? 5 : 10 })
SimRowCount(isAnalytical) == IF isAnalytical THEN 5 ELSE 10

\* the transactional time spread over 50 ms instead of 5
SimExecutionTimeMsOverlap(isAnalytical, r) ==
    IF isAnalytical THEN Add(Num(45), Mul(r, 20)) ELSE Add(Num(2), Mul(r, 50))

\* executionTimeMs: isAnalytical ? 45 + Math.random() * 20 : 2 + Math.random() * 5
\* where Math.random() returns r
SimExecutionTimeMs(isAnalytical, r) ==
    IF isAnalytical THEN Add(Num(45), Mul(r, 20)) ELSE Add(Num(2), Mul(r, 5))

\* runQuery(sql), with the random numbers it draws and the clock it reads.
\* rnd[1] is the draw of the artificial delay, which the result does not show.
runQuery(sql, rnd, now) ==
    LET isAnalytical == SimIsAnalytical(sql)
        length == SimRowCount(isAnalytical)
        rows == [j \in 1..length |->
                    IF isAnalytical
                    THEN AnalyticalRow(j - 1, rnd, 2 + 3 * (j - 1))
                    ELSE TransactionalRow(j - 1, rnd, 2 + (j - 1), now)]
        \* the draw after those of the rows
        last == 2 + length * (IF isAnalytical THEN 3 ELSE 1)
    IN  [columns |-> SimColumns(isAnalytical),
         rows |-> rows,
         executionTimeMs |-> SimExecutionTimeMs(isAnalytical, rnd[last]),
         engine |-> IF isAnalytical THEN "TiFlash" ELSE "TiKV",
         isMPP |-> isAnalytical,
         sql |-> sql,
         error |-> NoError]

(***************************************************************************)
(* The Live Query Client (services/tidbApiService)                         *)
(***************************************************************************)
\* an optional value: <<>> when it is undefined, <<v>> when it is v
None == <<>>
Some(v) == <<v>>

\* if (result.error): the text is neither undefined nor empty
Truthy(v) == v # None /\ v # Some("")

\* undefined where the code expects an array
UndefinedValue == <<[undefined |-> TRUE]>>

\* const isAnalytical = sql.toUpperCase().includes('GROUP BY')
\*                   || sql.toUpperCase().includes('JOIN')
LiveIsAnalytical(sql) ==
    \/ includes(toUpperCase(sql), GROUP_BY)
    \/ includes(toUpperCase(sql), JOIN)

\* the check of the endpoint alone
MissingEndpointOnly(cfg) == cfg.endpoint = ""

\* !config.endpoint || !config.publicKey || !config.privateKey
\* (the empty string is the falsy string)
MissingCredentials(cfg) ==
    cfg.endpoint = "" \/ cfg.publicKey = "" \/ cfg.privateKey = ""

\* A thrown Error and its message
Error(m) == [message |-> Some(m)]

\* the failure result with the engine taken from the text
LiveFailureClassified(sql, e) ==
    [columns |-> <<>>,
     rows |-> <<>>,
     executionTimeMs |-> 0,
     engine |-> IF LiveIsAnalytical(sql) THEN "TiFlash" ELSE "TiKV",
     isMPP |-> LiveIsAnalytical(sql),
     sql |-> sql,
     error |-> e.message]

\* the failure result with a time spent
LiveFailureWithTime(sql, e) ==
    [columns |-> <<>>,
     rows |-> <<>>,
     executionTimeMs |-> Num(1),
     engine |-> "TiKV",
     isMPP |-> FALSE,
     sql |-> sql,
     error |-> e.message]

\* The catch block of executeLiveQuery: the failure result for thrown value e
LiveFailure(sql, e) ==
    [columns |-> <<>>,
     rows |-> <<>>,
     executionTimeMs |-> 0,
     engine |-> "TiKV",
     isMPP |-> FALSE,
     sql |-> sql,
     error |-> e.message]

\* the success result that never sets isMPP
LiveSuccessNoMPP(sql, columns, rows, elapsed) ==
    [columns |-> columns,
     rows |-> rows,
     executionTimeMs |-> elapsed,
     engine |-> IF LiveIsAnalytical(sql) THEN "TiFlash" ELSE "TiKV",
     isMPP |-> FALSE,
     sql |-> sql,
     error |-> NoError]

\* The return statement of the try block
LiveSuccess(sql, columns, rows, elapsed) ==
    LET isAnalytical == LiveIsAnalytical(sql)
    IN  [columns |-> columns,
         rows |-> rows,
         executionTimeMs |-> elapsed,
         engine |-> IF isAnalytical THEN "TiFlash" ELSE "TiKV",
         isMPP |-> isAnalytical,
         sql |-> sql,
         error |-> NoError]

\* the thrown value of an error status whatever the body says
ErrorStatusNoMessage(body) ==
    Error("Query execution failed")

\* if (!response.ok): const errData = await response.json();
\* throw new Error(errData.message || "Query execution failed").
\* The value thrown for the body of a response without a successful status.
ErrorStatus(body) ==
    IF body.json = "invalid"
    THEN Error("Unexpected token < in JSON at position 0")
    ELSE IF body.json = "null"
    THEN Error("Cannot read properties of null (reading 'message')")
    ELSE Error(IF body.message = None \/ body.message = Some("")
               THEN "Query execution failed"
               ELSE body.message[1])

RECURSIVE ColumnNamesDistinct(_)
\* the names of the column objects with the repeated names dropped
ColumnNamesDistinct(items) ==
    IF items = <<>> THEN <<>>
    ELSE LET front == ColumnNamesDistinct(SubSeq(items, 1, Len(items) - 1))
             last == items[Len(items)].name
         IN  IF \E i \in 1..Len(front) : front[i] = last
             THEN front
             ELSE Append(front, last)

\* data.result.columns.map((c: any) => c.name)
ColumnNames(items) == [i \in 1..Len(items) |-> items[i].name]

\* What the try block does with the transport's behaviour t: the value it
\* returns, or the value it throws.
\*   t.kind = "throws": fetch rejects with t.error
\*   t.kind = "response": fetch resolves; t.ok is response.ok, t.body the body
\* A body is [json, message, result]: json is "invalid" (response.json()
\* rejects), "null" or "object"; result is [tag |-> "undefined"] or
\* [tag |-> "object", columns, rows]; columns is "undefined", "other" (a value
\* without map) or "array" of objects with a name; rows is UndefinedValue or
\* the array.
LiveTry(sql, t, elapsed) ==
    IF t.kind = "throws"
    THEN [threw |-> TRUE, value |-> t.error]
    ELSE IF ~t.ok
    THEN [threw |-> TRUE, value |-> ErrorStatus(t.body)]
    ELSE IF t.body.json = "invalid"
    THEN [threw |-> TRUE, value |-> Error("Unexpected token < in JSON at position 0")]
    ELSE IF t.body.json = "null"
    THEN [threw |-> TRUE,
          value |-> Error("Cannot read properties of null (reading 'result')")]
    ELSE IF t.body.result.tag = "undefined"
    THEN [threw |-> TRUE,
          value |-> Error("Cannot read properties of undefined (reading 'columns')")]
    ELSE IF t.body.result.columns.tag = "undefined"
    THEN [threw |-> TRUE,
          value |-> Error("Cannot read properties of undefined (reading 'map')")]
    ELSE IF t.body.result.columns.tag = "other"
    THEN [threw |-> TRUE,
          value |-> Error("data.result.columns.map is not a function")]
    ELSE [threw |-> FALSE,
          value |-> LiveSuccess(sql,
                        ColumnNames(t.body.result.columns.items),
                        t.body.result.rows,
                        elapsed)]

\* the call that goes to fetch without the credentials check
LiveBeginNoCheck(cfg) ==
    [kind |-> "awaiting", value |-> None, requests |-> 1]

\* executeLiveQuery(config, sql) up to its first await: the credentials
\* check throws, or fetch is called and the call awaits the transport.
\* requests counts the HTTP requests issued.
LiveBegin(cfg) ==
    IF MissingCredentials(cfg)
    THEN [kind |-> "throws", value |-> Error("Missing connection credentials"),
          requests |-> 0]
    ELSE [kind |-> "awaiting", value |-> None, requests |-> 1]

\* the call that sends the request again when the try block has thrown
executeLiveQueryRetries(cfg, sql, t, elapsed) ==
    IF LiveBegin(cfg).kind = "throws"
    THEN LiveBegin(cfg)
    ELSE LET r == LiveTry(sql, t, elapsed)
         IN  [kind |-> "returns",
              value |-> IF r.threw THEN LiveFailure(sql, r.value) ELSE r.value,
              requests |-> LiveBegin(cfg).requests + (IF r.threw THEN 1 ELSE 0)]

\* executeLiveQuery(config, sql) when the transport behaves as t and the
\* response completes elapsed after the start: how the call completes
\* (kind "returns" with the QueryResult, or "throws" with the thrown value)
\* and the number of HTTP requests it has issued.
executeLiveQuery(cfg, sql, t, elapsed) ==
    IF LiveBegin(cfg).kind = "throws"
    THEN LiveBegin(cfg)
    ELSE LET r == LiveTry(sql, t, elapsed)
         IN  [kind |-> "returns",
              value |-> IF r.threw THEN LiveFailure(sql, r.value) ELSE r.value,
              requests |-> LiveBegin(cfg).requests]

(***************************************************************************)
(* Inputs                                                                  *)
(***************************************************************************)
\* Pieces of SQL text: the keywords in several cases, whole and split, and
\* text that nearly spells one
Fragments ==
    { <<"s","u","m","(">>, <<"S","U","M">>, <<"(">>,
      <<"C","o","u","n","t","(">>, <<"c","o","u","n">>, <<"t","(">>,
      <<"j","o","i","n">>, <<"J","o","I","n">>, <<"j","o">>, <<"i","n">>,
      <<"g","r","o","u","p">>, <<" ">>, <<"b","y">>,
      <<"G","R","O","U","P"," ","B","Y">>, <<"x">> }

RECURSIVE Texts(_)
\* the concatenations of at most n fragments
Texts(n) ==
    IF n = 0 THEN { <<>> }
    ELSE Texts(n - 1) \cup { t \o f : t \in Texts(n - 1), f \in Fragments }

SqlInputs == Texts(MaxFrags)

\* the text the SQL Lab starts with
InitialSql ==
    <<"S","E","L","E","C","T"," ","c","a","t","e","g","o","r","y",","," ",
      "S","U","M","(","a","m","o","u","n","t",")"," ","a","s"," ","t","o",
      "t","a","l","_","s","a","l","e","s"," ","\n","F","R","O","M"," ","o",
      "r","d","e","r","s"," ","\n","G","R","O","U","P"," ","B","Y"," ","c",
      "a","t","e","g","o","r","y"," ","\n","O","R","D","E","R"," ","B","Y",
      " ","t","o","t","a","l","_","s","a","l","e","s"," ","D","E","S","C",
      ";">>

ShowTables == <<"S","H","O","W"," ","T","A","B","L","E","S",";">>

LimitQuery ==
    <<"S","E","L","E","C","T"," ","*"," ","F","R","O","M"," ","o","r","d",
      "e","r","s"," ","L","I","M","I","T"," ","1","0">>

CountQuery ==
    <<"s","e","l","e","c","t"," ","c","o","u","n","t","(","*",")"," ","f",
      "r","o","m"," ","t">>

\* the texts whose simulated numbers are examined for every random value
NumericSqls == { InitialSql, LimitQuery }

\* the random values the other texts are run with
SeedSample == { 0, Unit - 1 }

\* the random value the query runs of the App draw first
AppSeeds == { 0 }

Seeds(text) == IF text \in NumericSqls THEN RandomValues ELSE SeedSample

\* readings of the clock
Clock == 0..1

\* the placeholders of loadSampleCredentials
SampleEndpoint ==
    "https://gateway.tidbcloud.com/api/v1beta1/projects/sample/clusters/sample/data-service/query"
SamplePublicKey == "SAMPLE_PUBLIC_KEY"
SamplePrivateKey == "SAMPLE_PRIVATE_KEY"

\* what the user types into the endpoint and key fields: nothing, or the
\* text of the placeholder
TypedEndpoints == { "", SampleEndpoint }
TypedPublicKeys == { "", SamplePublicKey }
TypedPrivateKeys == { "", SamplePrivateKey }

EndpointValues == TypedEndpoints \cup { SampleEndpoint }
PublicKeyValues == TypedPublicKeys \cup { SamplePublicKey }
PrivateKeyValues == TypedPrivateKeys \cup { SamplePrivateKey }

\* the texts the user types into the editor
SqlChoices == { InitialSql, ShowTables, CountQuery }

Configs ==
    [endpoint : EndpointValues, publicKey : PublicKeyValues,
     privateKey : PrivateKeyValues, isLive : BOOLEAN]

\* the config with the sample credentials
SampleConfig ==
    [endpoint |-> SampleEndpoint, publicKey |-> SamplePublicKey,
     privateKey |-> SamplePrivateKey, isLive |-> TRUE]

\* values a rejected fetch throws
ThrownValues == { Error("Failed to fetch"), Error(""), [message |-> None] }

NoResult == [tag |-> "undefined"]
Result(columns, rows) == [tag |-> "object", columns |-> columns, rows |-> rows]
Array(items) == [tag |-> "array", items |-> items]

InvalidBody == [json |-> "invalid", message |-> None, result |-> NoResult]
NullBody == [json |-> "null", message |-> None, result |-> NoResult]
Body(message, result) == [json |-> "object", message |-> message, result |-> result]

IdValueColumns == Array(<<[name |-> "id"], [name |-> "v"]>>)
DuplicateColumns == Array(<<[name |-> "id"], [name |-> "id"]>>)
TwoRows == <<[id |-> 1, v |-> 10], [id |-> 2, v |-> 20]>>

Bodies ==
    { InvalidBody, NullBody,
      Body(None, NoResult),
      Body(Some("Unauthorized"), NoResult),
      Body(Some(""), NoResult),
      Body(None, Result([tag |-> "undefined"], TwoRows)),
      Body(None, Result([tag |-> "other"], TwoRows)),
      Body(None, Result(IdValueColumns, TwoRows)),
      Body(None, Result(Array(<<>>), <<>>)),
      Body(None, Result(DuplicateColumns, <<[id |-> 1]>>)),
      Body(None, Result(IdValueColumns, UndefinedValue)),
      Body(Some("partial"), Result(IdValueColumns, TwoRows)) }

\* behaviours of the transport (fetch and the response it resolves with)
Transports ==
    { [kind |-> "throws", error |-> e] : e \in ThrownValues }
    \cup { [kind |-> "response", ok |-> ok, body |-> b] : ok \in BOOLEAN, b \in Bodies }

\* the behaviours the query runs of the App meet: a rejected fetch, an error
\* status, a well-formed body, a body without result and a body without rows
AppTransports ==
    { [kind |-> "throws", error |-> Error("Failed to fetch")],
      [kind |-> "response", ok |-> FALSE, body |-> Body(Some("Unauthorized"), NoResult)],
      [kind |-> "response", ok |-> TRUE,
       body |-> Body(None, Result(IdValueColumns, TwoRows))],
      [kind |-> "response", ok |-> TRUE, body |-> Body(None, NoResult)],
      [kind |-> "response", ok |-> TRUE,
       body |-> Body(None, Result(IdValueColumns, UndefinedValue))] }

\* performance.now() at the end minus performance.now() at the start
ElapsedValues == { Num(e) : e \in 0..MaxElapsed }

(***************************************************************************)
(* The Insight Client (services/geminiService)                             *)
(***************************************************************************)
\* A JSON text is a sequence of tokens: punctuation, null, and string
\* literals with their content.
Tok(t, v) == [t |-> t, v |-> v]
LBrace == Tok("{", "")
RBrace == Tok("}", "")
Colon == Tok(":", "")
Comma == Tok(",", "")
NullTok == Tok("null", "")
Str(v) == Tok("str", v)

\* A parsed JSON value: null, or an object with its set of <<key, value>>
\* members.
JsonNull == [tag |-> "null", fields |-> {}]
JsonObject(fields) == [tag |-> "object", fields |-> fields]

\* the keys of an object
Keys(fields) == { m[1] : m \in fields }

RECURSIVE ParseMembers(_)
\* the members between the braces: "k":"v" pairs separated by commas; of a
\* repeated key the last value is kept
ParseMembers(toks) ==
    IF /\ Len(toks) >= 3
       /\ toks[1].t = "str" /\ toks[2] = Colon /\ toks[3].t = "str"
    THEN IF Len(toks) = 3
         THEN [ok |-> TRUE, fields |-> { <<toks[1].v, toks[3].v>> }]
         ELSE IF Len(toks) > 4 /\ toks[4] = Comma
         THEN LET rest == ParseMembers(SubSeq(toks, 5, Len(toks)))
              IN  IF ~rest.ok THEN rest
                  ELSE [ok |-> TRUE,
                        fields |-> rest.fields \cup
                                   (IF toks[1].v \in Keys(rest.fields)
                                    THEN {}
                                    ELSE { <<toks[1].v, toks[3].v>> })]
         ELSE [ok |-> FALSE, fields |-> {}]
    ELSE [ok |-> FALSE, fields |-> {}]

\* JSON.parse(text): the value, or the SyntaxError it throws
JSONParse(toks) ==
    IF toks = <<NullTok>>
    THEN [threw |-> FALSE, value |-> JsonNull]
    ELSE IF Len(toks) >= 2 /\ toks[1] = LBrace /\ toks[Len(toks)] = RBrace
    THEN IF Len(toks) = 2
         THEN [threw |-> FALSE, value |-> JsonObject({})]
         ELSE LET members == ParseMembers(SubSeq(toks, 2, Len(toks) - 1))
              IN  IF members.ok
                  THEN [threw |-> FALSE, value |-> JsonObject(members.fields)]
                  ELSE [threw |-> TRUE, value |-> JsonNull]
    ELSE [threw |-> TRUE, value |-> JsonNull]

\* the Insight returned from the catch block
FallbackInsight ==
    JsonObject({ <<"title", "Monitoring Active">>,
                 <<"content", "System metrics are within normal operating parameters. HTAP isolation is maintained.">>,
                 <<"recommendation", "Continue standard monitoring.">>,
                 <<"severity", "low">> })

\* response.text || '{}'
TextOrEmptyObject(text) ==
    IF text = None \/ text = Some(<<>>) THEN <<LBrace, RBrace>> ELSE text[1]

\* getAIInsights(status) when generateContent behaves as t: it throws, or
\* it resolves with a response whose text is t.text (None when undefined).
\* The result is kind "returns" with the value returned.
getAIInsights(status, t) ==
    IF t.kind = "throws"
    THEN [kind |-> "returns", value |-> FallbackInsight, requests |-> 1]
    ELSE LET result == JSONParse(TextOrEmptyObject(t.text))
         IN  [kind |-> "returns",
              value |-> IF result.threw THEN FallbackInsight ELSE result.value,
              requests |-> 1]

\* the fields the response schema requires
InsightFields == <<"title", "content", "recommendation", "severity">>

\* values the model gives to a field
FieldValues(k) ==
    IF k = "severity" THEN { "low", "medium", "high", "urgent" }
    ELSE IF k = "title" THEN { "Replica lag rising" }
    ELSE IF k = "content" THEN { "TiFlash keeps up with TiKV." }
    ELSE { "Add a TiFlash replica." }

RECURSIVE MemberLists(_)
\* the lists of members over the first n fields, each field in or out
MemberLists(n) ==
    IF n = 0 THEN { <<>> }
    ELSE MemberLists(n - 1) \cup
         { Append(l, <<InsightFields[n], v>>) :
              l \in MemberLists(n - 1), v \in FieldValues(InsightFields[n]) }

RECURSIVE JSONMembers(_)
\* the tokens of a list of members
JSONMembers(l) ==
    IF l = <<>> THEN <<>>
    ELSE IF Len(l) = 1 THEN <<Str(l[1][1]), Colon, Str(l[1][2])>>
    ELSE <<Str(l[1][1]), Colon, Str(l[1][2]), Comma>> \o JSONMembers(Tail(l))

\* the JSON text of an object with the members l
JSONStringify(l) == <<LBrace>> \o JSONMembers(l) \o <<RBrace>>

\* the texts of a response: objects with any of the four fields, the same
\* cut before the closing brace, a title given twice, null, and no text
ResponseTexts ==
    { JSONStringify(l) : l \in MemberLists(Len(InsightFields)) }
    \cup { <<LBrace>> \o JSONMembers(l) : l \in MemberLists(Len(InsightFields)) }
    \cup { JSONStringify(<<<<"title", "a">>, <<"title", "b">>>>),
           <<NullTok>>, <<Str("All good")>>, <<>> }

\* behaviours of ai.models.generateContent
InsightTransports ==
    { [kind |-> "throws", text |-> None], [kind |-> "response", text |-> None] }
    \cup { [kind |-> "response", text |-> Some(x)] : x \in ResponseTexts }

\* the HTAPStatus of getHTAPStatus with the least and the greatest sync lag
Statuses ==
    { [tikvRegionCount |-> 1450, tiflashReplicaCount |-> 2, syncLagMs |-> lag,
       qpsOltp |-> 1250, qpsOlap |-> 15] : lag \in { Num(12), Num(62) - 1 } }

(***************************************************************************)
(* State                                                                   *)
(***************************************************************************)
VARIABLES
    \* one call of a service function, and how it has completed
    call, outcome,
    \* the state hooks of the App component
    config, sql, queryResult, executing, logs, testStatus,
    \* the asynchronous work in flight: handleRunQuery invocations awaiting
    \* their backend, setTimeout callbacks of exploreSchema, and the
    \* handleTestConnection invocation awaiting testConnection
    runs, timers, testing,
    \* what has happened so far: runs, tests and sample loads started, calls
    \* of executeLiveQuery (live) and of runQuery (mock) made by the runs, the
    \* run whose result was written to queryResult last (shown), calls of
    \* setQueryResult (writes), tests that succeeded (verified), mounts, ticks
    \* of the interval and calls of getAIInsights (insights), and HTTP
    \* requests issued by executeLiveQuery
    started, queryRequests,
    \* the state hooks of the dashboard, and the fetchAIInsights invocations
    \* awaiting getAIInsights
    metrics, status, insight, loadingInsight, insightCalls

callVars == <<call, outcome>>
dashVars == <<metrics, status, insight, loadingInsight, insightCalls>>
appVars == <<config, sql, queryResult, executing, logs, testStatus,
             runs, timers, testing, started, queryRequests,
             metrics, status, insight, loadingInsight, insightCalls>>
vars == <<call, outcome, config, sql, queryResult, executing, logs, testStatus,
          runs, timers, testing, started, queryRequests,
          metrics, status, insight, loadingInsight, insightCalls>>

NoCall == [fn |-> "none"]
\* no transport behaviour observed (yet)
NoTransport == [kind |-> "none"]
Pending == [kind |-> "pending", value |-> None, requests |-> 0, transport |-> NoTransport]

\* getHTAPStatus() when Math.random() returns r
getHTAPStatus(r) ==
    [tikvRegionCount |-> 1450, tiflashReplicaCount |-> 2,
     syncLagMs |-> Add(Num(12), Mul(r, 50)), qpsOltp |-> 1250, qpsOlap |-> 15]

\* points generateRealtimePerformance returns: i = 10 down to 0
PointCount == 11

\* draws of Math.random() one call of generateRealtimePerformance makes
MetricDraws == 2 * PointCount

\* the k-th call of Math.random() in generateRealtimePerformance
MetricSource(seed) == [k \in 1..MetricDraws |-> (seed + 7 * (k - 1)) % Unit]

\* toLocaleTimeString with 2-digit hour, minute and second of the time t, in
\* seconds: the time of day, without the date
toLocaleTimeString(t) ==
    [hour |-> (t \div 3600) % 24, minute |-> (t \div 60) % 60, second |-> t % 60]

\* generateRealtimePerformance() at the time now (in seconds) with the
\* random source rnd: the j-th point pushed is the one of i = PointCount - j
generateRealtimePerformance(now, rnd) ==
    [j \in 1..PointCount |->
        [time |-> toLocaleTimeString(now - (PointCount - j)),
         oltp |-> Add(Num(800), Mul(rnd[2 * j - 1], 400)),
         olap |-> Add(Num(10), Mul(rnd[2 * j], 5))]]

\* the metrics that keep the oldest point and drop the newest
ShiftMetricsDropsNewest(prev, next) ==
    IF prev = <<>> THEN <<next>>
    ELSE SubSeq(prev, 1, Len(prev) - 1) \o <<next>>

\* [...prev.slice(1), next]
ShiftMetrics(prev, next) ==
    IF prev = <<>> THEN <<next>> ELSE Tail(prev) \o <<next>>

\* the time, in seconds, at which the App mounts: ten seconds to midnight
MountTime == 24 * 3600 - 10

\* the seconds between two ticks: setInterval(..., 2000)
TickPeriod == 2

\* seeds of the random source of a refresh, and values Math.random() returns
\* to getHTAPStatus
MetricSeeds == { 0, Unit - 1 }
StatusDraws == { 0, Unit - 1 }

\* behaviours of generateContent the insight requests of the App meet: a
\* failure, a full Insight, a response without text
DashTransports ==
    { [kind |-> "throws", text |-> None],
      [kind |-> "response", text |-> None],
      [kind |-> "response",
       text |-> Some(JSONStringify(<<<<"title", "Replica lag rising">>,
                                     <<"content", "TiFlash keeps up with TiKV.">>,
                                     <<"recommendation", "Add a TiFlash replica.">>,
                                     <<"severity", "medium">>>>))] }

\* the useState initial values of the dashboard, for the least sync lag
DashboardHooks ==
    /\ metrics = <<>>
    /\ status = getHTAPStatus(0)
    /\ insight = None
    /\ loadingInsight = FALSE
    /\ insightCalls = {}

\* the useState initial values of App.  host, port and user of config are
\* display-only and left out.  activeView is left out: it decides which
\* controls are on screen, and the navigation bar leads to every view at any
\* time, so every control can be used in every state that enables it.
AppInit ==
    /\ config = [endpoint |-> "", publicKey |-> "", privateKey |-> "", isLive |-> FALSE]
    /\ sql = InitialSql
    /\ queryResult = None
    /\ executing = FALSE
    /\ logs = <<>>
    /\ testStatus = [loading |-> FALSE, success |-> None, message |-> None]
    /\ runs = {}
    /\ timers = {}
    /\ testing = None
    /\ started = [runs |-> 0, timers |-> 0, tests |-> 0, loads |-> 0, edits |-> 0,
                  live |-> 0, mock |-> 0, shown |-> 0, writes |-> 0,
                  verified |-> 0, mounts |-> 0, ticks |-> 0, insights |-> 0]
    /\ queryRequests = 0
    /\ DashboardHooks

(***************************************************************************)
(* SpecSim: one call of runQuery                                           *)
(***************************************************************************)
SimInit ==
    /\ call \in { [fn |-> "runQuery", sql |-> t] : t \in SqlInputs \cup NumericSqls }
    /\ outcome = Pending
    /\ AppInit

\* the promise of runQuery resolves
SimReturns ==
    /\ call.fn = "runQuery"
    /\ outcome.kind = "pending"
    /\ \E seed \in Seeds(call.sql), now \in Clock :
          outcome' = [kind |-> "returns",
                      value |-> runQuery(call.sql, RandomSource(seed), now),
                      requests |-> 0,
                      transport |-> NoTransport]
    /\ UNCHANGED <<call, appVars>>

SimNext == SimReturns

SpecSim == SimInit /\ [][SimNext]_vars

(***************************************************************************)
(* SpecLive: one call of executeLiveQuery                                  *)
(***************************************************************************)
LiveInit ==
    /\ call \in { [fn |-> "executeLiveQuery", config |-> c, sql |-> t] :
                    c \in Configs, t \in SqlChoices }
          \cup { [fn |-> "executeLiveQuery", config |-> SampleConfig, sql |-> t] :
                    t \in SqlInputs }
    /\ outcome = Pending
    /\ AppInit

\* the call up to its first await: the credentials check, then fetch
LiveStarts ==
    /\ call.fn = "executeLiveQuery"
    /\ outcome.kind = "pending"
    /\ outcome' = [kind |-> LiveBegin(call.config).kind,
                   value |-> LiveBegin(call.config).value,
                   requests |-> LiveBegin(call.config).requests,
                   transport |-> NoTransport]
    /\ UNCHANGED <<call, appVars>>

\* the transport settles as t and the call runs to completion
LiveSettles ==
    /\ call.fn = "executeLiveQuery"
    /\ outcome.kind = "awaiting"
    /\ \E t \in Transports, elapsed \in ElapsedValues :
          LET o == executeLiveQuery(call.config, call.sql, t, elapsed)
          IN  outcome' = [kind |-> o.kind, value |-> o.value,
                          requests |-> o.requests, transport |-> t]
    /\ UNCHANGED <<call, appVars>>

LiveNext == LiveStarts \/ LiveSettles

SpecLive == LiveInit /\ [][LiveNext]_vars

(***************************************************************************)
(* SpecInsight: one call of getAIInsights                                  *)
(***************************************************************************)
InsightInit ==
    /\ call \in { [fn |-> "getAIInsights", status |-> st] : st \in Statuses }
    /\ outcome = Pending
    /\ AppInit

\* the call up to its await: the prompt is built and generateContent called
InsightStarts ==
    /\ call.fn = "getAIInsights"
    /\ outcome.kind = "pending"
    /\ outcome' = [kind |-> "awaiting", value |-> None, requests |-> 1,
                   transport |-> NoTransport]
    /\ UNCHANGED <<call, appVars>>

\* generateContent settles as t and the call runs to completion
InsightSettles ==
    /\ call.fn = "getAIInsights"
    /\ outcome.kind = "awaiting"
    /\ \E t \in InsightTransports :
          LET o == getAIInsights(call.status, t)
          IN  outcome' = [kind |-> o.kind, value |-> o.value,
                          requests |-> o.requests, transport |-> t]
    /\ UNCHANGED <<call, appVars>>

InsightNext == InsightStarts \/ InsightSettles

SpecInsight == InsightInit /\ [][InsightNext]_vars

(***************************************************************************)
(* Claims about runQuery (SpecSim)                                         *)
(***************************************************************************)
Keywords == { GROUP_BY, JOIN, SUM_, COUNT_ }

\* kw occurs in text at offset i when case is ignored
OccursAt(kw, text, i) ==
    /\ i + Len(kw) <= Len(text)
    /\ \A j \in 1..Len(kw) : UpperChar(text[i + j]) = kw[j]

ContainsKeyword(text) ==
    \E kw \in Keywords : \E i \in 0..Len(text) : OccursAt(kw, text, i)

SimReturned == call.fn = "runQuery" /\ outcome.kind = "returns"

\* C1: runQuery reports engine TiFlash if and only if the upper-cased text
\* contains one of GROUP BY, JOIN, SUM( or COUNT(, and TiKV for every other
\* text.
C1_SimClassification ==
    SimReturned =>
        /\ (outcome.value.engine = "TiFlash") <=> ContainsKeyword(call.sql)
        /\ (~ContainsKeyword(call.sql)) => outcome.value.engine = "TiKV"

\* a lower-case count( put together from two fragments is reported TiFlash
C1_Witness ==
    /\ SimReturned
    /\ call.sql = <<"c","o","u","n","t","(">>
    /\ outcome.value.engine = "TiFlash"

\* C7: runQuery sets no error, and the classification alone fixes the shape:
\* analytical gives 5 rows, the four analytical columns, TiFlash and isMPP;
\* transactional gives 10 rows, the five transactional columns, TiKV and no
\* isMPP.
C7_SimShape ==
    SimReturned =>
        /\ outcome.value.error = NoError
        /\ IF ContainsKeyword(call.sql)
           THEN /\ Len(outcome.value.rows) = 5
                /\ outcome.value.columns =
                      <<"category", "total_sales", "avg_price", "order_count">>
                /\ outcome.value.engine = "TiFlash"
                /\ outcome.value.isMPP = TRUE
           ELSE /\ Len(outcome.value.rows) = 10
                /\ outcome.value.columns =
                      <<"id", "user_id", "amount", "status", "created_at">>
                /\ outcome.value.engine = "TiKV"
                /\ outcome.value.isMPP = FALSE

\* an analytical result of 5 rows has been returned
C7_Witness ==
    /\ SimReturned
    /\ call.sql = InitialSql
    /\ Len(outcome.value.rows) = 5
    /\ outcome.value.error = NoError

\* C8: in an analytical result row i has the i-th category of Electronics,
\* Home, Apparel, Books, Toys; in a transactional result row i has id 1000+i,
\* user_id 500+i and status completed; every row has exactly the keys listed
\* in columns.
C8_SimRows ==
    SimReturned =>
        LET r == outcome.value
        IN  /\ \A j \in 1..Len(r.rows) :
                  DOMAIN r.rows[j] = { r.columns[k] : k \in 1..Len(r.columns) }
            /\ r.engine = "TiFlash" =>
                  \A i \in 0..4 :
                      r.rows[i + 1].category =
                          <<"Electronics", "Home", "Apparel", "Books", "Toys">>[i + 1]
            /\ r.engine = "TiKV" =>
                  \A i \in 0..9 :
                      /\ r.rows[i + 1].id = 1000 + i
                      /\ r.rows[i + 1].user_id = 500 + i
                      /\ r.rows[i + 1].status = "completed"

\* a transactional result whose last row has id 1009 has been returned
C8_Witness ==
    /\ SimReturned
    /\ outcome.value.engine = "TiKV"
    /\ outcome.value.rows[10].id = 1009
    /\ outcome.value.rows[10].user_id = 509

\* C9 as stated: executionTimeMs is in [45, 65) for an analytical result and
\* in [2, 7) for a transactional one.
C9_HalfOpenRanges ==
    SimReturned =>
        LET t == outcome.value.executionTimeMs
        IN  IF outcome.value.engine = "TiFlash"
            THEN Num(45) <= t /\ t < Num(65)
            ELSE Num(2) <= t /\ t < Num(7)

\* C9 as amended: executionTimeMs is in [45, 65] for an analytical result
\* (65 is reached when the sum rounds up) and in [2, 7) for a transactional
\* one, so every analytical time exceeds every transactional time.
C9_TimeRanges ==
    SimReturned =>
        LET t == outcome.value.executionTimeMs
        IN  IF outcome.value.engine = "TiFlash"
            THEN Num(45) <= t /\ t <= Num(65) /\ t > Num(7)
            ELSE Num(2) <= t /\ t < Num(7) /\ t < Num(45)

\* an analytical result whose executionTimeMs is exactly 65
C9_Witness ==
    /\ SimReturned
    /\ outcome.value.engine = "TiFlash"
    /\ outcome.value.executionTimeMs = Num(65)

(***************************************************************************)
(* Claims about executeLiveQuery (SpecLive)                                *)
(***************************************************************************)
LiveCalled == call.fn = "executeLiveQuery"

\* the try block ran to its return statement
LiveSucceeded ==
    /\ LiveCalled
    /\ outcome.kind = "returns"
    /\ ~LiveTry(call.sql, outcome.transport, 0).threw

\* C2: a successful executeLiveQuery result has the engine and isMPP that
\* runQuery reports for the same text.
C2_SameClassification ==
    LiveSucceeded =>
        LET sim == runQuery(call.sql, RandomSource(0), 0)
        IN  /\ outcome.value.engine = sim.engine
            /\ outcome.value.isMPP = sim.isMPP

\* C3: executeLiveQuery never raises, whatever the config: it completes by
\* returning a QueryResult, and a failure has error set with empty columns
\* and rows.
C3_NeverRaises ==
    LiveCalled =>
        /\ outcome.kind # "throws"
        /\ (outcome.kind = "returns" /\ ~LiveSucceeded) =>
              /\ outcome.value.error # NoError
              /\ outcome.value.columns = <<>>
              /\ outcome.value.rows = <<>>

\* C4: with endpoint, publicKey or privateKey empty, executeLiveQuery issues
\* no HTTP request.
C4_NoRequestWithoutCredentials ==
    (/\ LiveCalled
     /\ \/ call.config.endpoint = ""
        \/ call.config.publicKey = ""
        \/ call.config.privateKey = "")
    => outcome.requests = 0 /\ outcome.kind \in {"pending", "throws"}

\* the call with only publicKey empty has completed without a request
C4_Witness ==
    /\ LiveCalled
    /\ call.config.endpoint # ""
    /\ call.config.publicKey = ""
    /\ call.config.privateKey # ""
    /\ outcome.kind = "throws"
    /\ outcome.requests = 0

\* C10: with credentials present and a transport that throws with message m,
\* the result has error m, engine TiKV, isMPP false, empty columns and rows
\* and executionTimeMs 0, whatever the text.
C10_TransportThrows ==
    (LiveCalled /\ outcome.transport.kind = "throws") =>
        /\ outcome.kind = "returns"
        /\ outcome.value.error = outcome.transport.error.message
        /\ outcome.value.engine = "TiKV"
        /\ outcome.value.isMPP = FALSE
        /\ outcome.value.columns = <<>>
        /\ outcome.value.rows = <<>>
        /\ outcome.value.executionTimeMs = 0

\* the transport threw Failed to fetch on a text with a join
C10_Witness ==
    /\ LiveCalled
    /\ outcome.transport = [kind |-> "throws", error |-> Error("Failed to fetch")]
    /\ call.sql = <<"x","j","o","i","n">>
    /\ outcome.value.error = Some("Failed to fetch")
    /\ outcome.value.engine = "TiKV"

\* the shape of a failure: nothing returned, no time, the row store
FailureShaped(r) ==
    /\ r.columns = <<>>
    /\ r.rows = <<>>
    /\ r.executionTimeMs = 0
    /\ r.engine = "TiKV"
    /\ r.isMPP = FALSE

\* the transport answered with a status that is not successful
ErrorStatusAnswered ==
    /\ LiveCalled
    /\ outcome.transport.kind = "response"
    /\ ~outcome.transport.ok

UnusableBody(body) ==
    \/ body.json # "object"
    \/ body.result.tag = "undefined"
    \/ body.result.columns.tag # "array"
    \/ body.result.rows = UndefinedValue

\* the request failed: the transport threw, the status was not successful,
\* or the body cannot be used
RequestFailed ==
    /\ LiveCalled
    /\ outcome.kind = "returns"
    /\ \/ outcome.transport.kind = "throws"
       \/ ~outcome.transport.ok
       \/ UnusableBody(outcome.transport.body)

\* C12: whenever the request failed, the result has error set to a non-empty
\* message, so that a caller testing error does not take it for a success.
C12_FailureHasMessage ==
    RequestFailed => Truthy(outcome.value.error)

\* C13: a 2xx response whose body lacks result, a list of columns or rows
\* gives a failure-shaped result with error set.
C13_MalformedIsFailure ==
    (/\ LiveCalled
     /\ outcome.kind = "returns"
     /\ outcome.transport.kind = "response"
     /\ outcome.transport.ok
     /\ UnusableBody(outcome.transport.body))
    => /\ outcome.value.error # NoError
       /\ FailureShaped(outcome.value)

\* endpoint, publicKey and privateKey of the call are all non-empty
CredentialsPresent ==
    /\ call.config.endpoint # ""
    /\ call.config.publicKey # ""
    /\ call.config.privateKey # ""

WellFormedAnswered ==
    /\ LiveCalled
    /\ outcome.kind = "returns"
    /\ outcome.transport.kind = "response"
    /\ outcome.transport.ok
    /\ ~UnusableBody(outcome.transport.body)

\* C15: on a 2xx response with a well-formed body the result has no error,
\* its columns are the names of result.columns in the same order and number,
\* and its rows are result.rows unchanged.
C15_SuccessMapping ==
    WellFormedAnswered =>
        LET result == outcome.transport.body.result
        IN  /\ outcome.value.error = NoError
            /\ Len(outcome.value.columns) = Len(result.columns.items)
            /\ \A i \in 1..Len(result.columns.items) :
                   outcome.value.columns[i] = result.columns.items[i].name
            /\ outcome.value.rows = result.rows

\* a body that names the column id twice was mapped to two columns
C15_Witness ==
    /\ WellFormedAnswered
    /\ outcome.transport.body.result.columns = DuplicateColumns
    /\ outcome.value.columns = <<"id", "id">>
    /\ outcome.value.rows = <<[id |-> 1]>>

(***************************************************************************)
(* Claims about getAIInsights (SpecInsight)                                *)
(***************************************************************************)
InsightCalled == call.fn = "getAIInsights"

\* the object has the four fields of an Insight
HasAllFields(v) ==
    /\ v.tag = "object"
    /\ \A i \in 1..Len(InsightFields) : InsightFields[i] \in Keys(v.fields)

\* the request failed: generateContent threw, the text (empty included) is
\* not JSON, or what was parsed lacks one of the four fields
InsightFailed(t) ==
    \/ t.kind = "throws"
    \/ t.text = None
    \/ t.text = Some(<<>>)
    \/ JSONParse(t.text[1]).threw
    \/ ~HasAllFields(JSONParse(t.text[1]).value)

\* C16: getAIInsights never raises; on any failure (generateContent throws,
\* the text is empty or not JSON, the parsed object lacks one of title,
\* content, recommendation, severity) it returns exactly the fallback
\* Insight, and otherwise an Insight with all four fields.
C16_FallbackOnFailure ==
    (InsightCalled /\ outcome.kind \notin {"pending", "awaiting"}) =>
        /\ outcome.kind = "returns"
        /\ IF InsightFailed(outcome.transport)
           THEN outcome.value = FallbackInsight
           ELSE HasAllFields(outcome.value)

(***************************************************************************)
(* The App component                                                       *)
(***************************************************************************)
\* entries addLog keeps of the previous log: prev.slice(-24)
KeptEntries == 24

\* the log that keeps every entry
addLogUnbounded(prev, type, msg, n, s) ==
    Append(prev, [type |-> type, msg |-> msg, n |-> n, s |-> s])

\* addLog(msg, type) applied to the log prev.  An entry is the type (which
\* picks the prefix), the fixed part of the message and the number and the
\* text put into it; the time of day in the entry is left out.
addLog(prev, type, msg, n, s) ==
    LET kept == IF Len(prev) > KeptEntries
                THEN SubSeq(prev, Len(prev) - KeptEntries + 1, Len(prev))
                ELSE prev
    IN  Append(kept, [type |-> type, msg |-> msg, n |-> n, s |-> s])

\* `${v}` of an optional text
Stringify(v) == IF v = None THEN "undefined" ELSE v[1]

\* the fallback result that takes the text of the editor
FallbackEditorSql(text, e) ==
    [columns |-> <<>>,
     rows |-> <<>>,
     executionTimeMs |-> 0,
     engine |-> "TiKV",
     isMPP |-> FALSE,
     sql |-> sql,
     error |-> e.message]

\* the QueryResult built in the catch block of handleRunQuery
Fallback(text, e) ==
    [columns |-> <<>>,
     rows |-> <<>>,
     executionTimeMs |-> 0,
     engine |-> "TiKV",
     isMPP |-> FALSE,
     sql |-> text,
     error |-> e.message]

\* the backend every run calls
BackendAlwaysMock(cfg) == "mock"

\* if (config.isLive) ... executeLiveQuery ... else ... runMockQuery
Backend(cfg) == IF cfg.isLive THEN "live" ELSE "mock"

\* handleRunQuery() of the render whose config is cfg and whose sql is text,
\* up to the point where it awaits its backend.  When executeLiveQuery
\* throws, the await rejects and the catch block and setExecuting(false)
\* run before any other event.
handleRunQuery(cfg, text) ==
    LET id == started.runs + 1
        running == addLog(logs, "info", "Running query...", -1, "")
        threw == Backend(cfg) = "live" /\ LiveBegin(cfg).kind = "throws"
    IN  /\ started' = [started EXCEPT
                          !.runs = id,
                          !.live = @ + (IF Backend(cfg) = "live" THEN 1 ELSE 0),
                          !.mock = @ + (IF Backend(cfg) = "mock" THEN 1 ELSE 0),
                          !.shown = IF threw THEN id ELSE @,
                          !.writes = @ + (IF threw THEN 1 ELSE 0)]
        /\ IF threw
           THEN /\ queryResult' = Some(Fallback(text, LiveBegin(cfg).value))
                /\ logs' = addLog(running, "error", "Execution Failed: ", -1,
                                  Stringify(LiveBegin(cfg).value.message))
                /\ executing' = FALSE
                /\ UNCHANGED <<runs, queryRequests>>
           ELSE /\ executing' = TRUE
                /\ logs' = running
                /\ runs' = runs \cup
                      { [id |-> id,
                         backend |-> Backend(cfg),
                         config |-> cfg,
                         sql |-> text] }
                /\ queryRequests' =
                      queryRequests +
                         (IF Backend(cfg) = "live" THEN LiveBegin(cfg).requests ELSE 0)
                /\ UNCHANGED queryResult

\* runs and scheduled runs so far
RunBudgetLeft == started.runs + Cardinality(timers) < MaxRuns

\* the Execute SQL button (disabled while executing)
ClickExecute ==
    /\ ~executing
    /\ RunBudgetLeft
    /\ handleRunQuery(config, sql)
    /\ UNCHANGED <<callVars, dashVars, config, sql, testStatus, timers, testing>>

\* exploreSchema: the Refresh Schema button of the SQL Lab and the Auto-Map
\* Schema button of the settings.  The callback it schedules calls the
\* handleRunQuery of the render in which the button was clicked.
exploreSchema ==
    /\ RunBudgetLeft
    /\ sql' = ShowTables
    /\ started' = [started EXCEPT !.timers = @ + 1]
    /\ timers' = timers \cup
          { [id |-> started.timers + 1, config |-> config, sql |-> sql] }
    /\ UNCHANGED <<callVars, dashVars, config, queryResult, executing, logs, testStatus,
                   runs, testing, queryRequests>>

\* the setTimeout callback of exploreSchema
TimerFires ==
    \E t \in timers :
        /\ timers' = timers \ {t}
        /\ handleRunQuery(t.config, t.sql)
        /\ UNCHANGED <<callVars, dashVars, config, sql, testStatus, testing>>

\* the completion that drops the result of a run started before the run
\* whose result is shown
RunMockCompletesSequenced ==
    \E r \in runs : \E seed \in AppSeeds :
        LET result == runQuery(r.sql, RandomSource(seed), 0)
            stale == r.id < started.shown
        IN  /\ r.backend = "mock"
            /\ runs' = runs \ {r}
            /\ queryResult' = IF stale THEN queryResult ELSE Some(result)
            /\ logs' = addLog(logs, "success", "Mock Results: rows simulate.",
                              Len(result.rows), "")
            /\ executing' = FALSE
            /\ started' = IF stale THEN started ELSE [started EXCEPT !.shown = r.id]
            /\ UNCHANGED <<callVars, dashVars, config, sql, testStatus, timers,
                           testing, queryRequests>>

\* runMockQuery resolves and handleRunQuery resumes
RunMockCompletes ==
    \E r \in runs : \E seed \in AppSeeds :
        LET result == runQuery(r.sql, RandomSource(seed), 0)
        IN  /\ r.backend = "mock"
            /\ runs' = runs \ {r}
            /\ queryResult' = Some(result)
            /\ logs' = addLog(logs, "success", "Mock Results: rows simulate.",
                              Len(result.rows), "")
            /\ executing' = FALSE
            /\ started' = [started EXCEPT !.shown = r.id, !.writes = @ + 1]
            /\ UNCHANGED <<callVars, dashVars, config, sql, testStatus, timers,
                           testing, queryRequests>>

\* executeLiveQuery resolves and handleRunQuery resumes.  result.rows.length
\* of a result whose rows is undefined throws after setQueryResult(result),
\* and the catch block sets the fallback result.
LiveRunCompletes(r) ==
    \E t \in AppTransports, elapsed \in ElapsedValues :
        LET result == executeLiveQuery(r.config, r.sql, t, elapsed).value
        IN  /\ r.backend = "live"
            /\ runs' = runs \ {r}
            /\ IF Truthy(result.error)
               THEN /\ queryResult' = Some(result)
                    /\ logs' = addLog(logs, "error", "Live Error: ", -1,
                                      Stringify(result.error))
               ELSE IF result.rows = UndefinedValue
               THEN /\ queryResult' = Some(Fallback(r.sql,
                          Error("Cannot read properties of undefined (reading 'length')")))
                    /\ logs' = addLog(logs, "error", "Execution Failed: ", -1,
                          "Cannot read properties of undefined (reading 'length')")
               ELSE /\ queryResult' = Some(result)
                    /\ logs' = addLog(logs, "success", "Success: Returned rows",
                                      Len(result.rows), result.engine)
            /\ executing' = FALSE
            /\ started' = [started EXCEPT
                  !.shown = r.id,
                  !.writes = @ + (IF ~Truthy(result.error) /\ result.rows = UndefinedValue
                                  THEN 2 ELSE 1)]
            /\ UNCHANGED <<callVars, dashVars, config, sql, testStatus, timers,
                           testing, queryRequests>>

RunLiveCompletes == \E r \in runs : LiveRunCompletes(r)

\* the textarea of the SQL Lab
EditBudgetLeft == started.edits < MaxEdits

EditSql ==
    \E text \in SqlChoices :
        /\ text # sql
        /\ EditBudgetLeft
        /\ started' = [started EXCEPT !.edits = @ + 1]
        /\ sql' = text
        /\ UNCHANGED <<callVars, dashVars, config, queryResult, executing, logs, testStatus,
                       runs, timers, testing, queryRequests>>

\* the endpoint, public key and private key fields of the settings
EditEndpoint ==
    \E v \in TypedEndpoints :
        /\ v # config.endpoint
        /\ EditBudgetLeft
        /\ started' = [started EXCEPT !.edits = @ + 1]
        /\ config' = [config EXCEPT !.endpoint = v]
        /\ UNCHANGED <<callVars, dashVars, sql, queryResult, executing, logs, testStatus,
                       runs, timers, testing, queryRequests>>

EditPublicKey ==
    \E v \in TypedPublicKeys :
        /\ v # config.publicKey
        /\ EditBudgetLeft
        /\ started' = [started EXCEPT !.edits = @ + 1]
        /\ config' = [config EXCEPT !.publicKey = v]
        /\ UNCHANGED <<callVars, dashVars, sql, queryResult, executing, logs, testStatus,
                       runs, timers, testing, queryRequests>>

EditPrivateKey ==
    \E v \in TypedPrivateKeys :
        /\ v # config.privateKey
        /\ EditBudgetLeft
        /\ started' = [started EXCEPT !.edits = @ + 1]
        /\ config' = [config EXCEPT !.privateKey = v]
        /\ UNCHANGED <<callVars, dashVars, sql, queryResult, executing, logs, testStatus,
                       runs, timers, testing, queryRequests>>

loadSampleCredentials ==
    /\ started.loads < MaxLoads
    /\ started' = [started EXCEPT !.loads = @ + 1]
    /\ config' = [config EXCEPT !.endpoint = SampleEndpoint,
                                !.publicKey = SamplePublicKey,
                                !.privateKey = SamplePrivateKey]
    /\ logs' = addLog(logs, "info",
                      "Sample credentials loaded. Note: These are placeholders.", -1, "")
    /\ UNCHANGED <<callVars, dashVars, sql, queryResult, executing, testStatus,
                   runs, timers, testing, queryRequests>>

\* testConnection(config): the probe succeeds iff the response has a
\* successful status; the message is the confirmation or the server's or the
\* transport's message.  It does not raise.
testConnection(ok, message) ==
    [success |-> ok,
     message |-> IF ok THEN "Connection successful" ELSE message]

\* messages of a failed probe
ProbeFailures == { "Unauthorized", "Failed to fetch" }

\* the Test Connection button (disabled while a test is loading or the
\* endpoint is empty), up to the await of testConnection(config)
ClickTestConnection ==
    /\ ~testStatus.loading
    /\ config.endpoint # ""
    /\ started.tests < MaxTests
    /\ started' = [started EXCEPT !.tests = @ + 1]
    /\ testStatus' = [loading |-> TRUE, success |-> None, message |-> None]
    /\ logs' = addLog(logs, "info", "Testing endpoint connectivity...", -1, "")
    /\ testing' = Some([config |-> config])
    /\ UNCHANGED <<callVars, dashVars, config, sql, queryResult, executing,
                   runs, timers, queryRequests>>

\* testConnection resolves and handleTestConnection resumes
TestCompletes ==
    \E ok \in BOOLEAN, m \in ProbeFailures :
        LET result == testConnection(ok, m)
            failed == addLog(logs, "error", "Failed: ", -1, result.message)
        IN  /\ testing # None
            /\ testing' = None
            /\ testStatus' = [loading |-> FALSE,
                              success |-> Some(result.success),
                              message |-> Some(result.message)]
            /\ IF result.success
               THEN /\ logs' = addLog(logs, "success",
                          "Verified! Data Service responded with 200 OK.", -1, "")
                    /\ config' = [config EXCEPT !.isLive = TRUE]
               ELSE /\ logs' =
                          IF result.message = "Failed to fetch"
                          THEN addLog(failed, "info",
                                   "Possible CORS issue. Ensure your Data App allows requests from this domain.",
                                   -1, "")
                          ELSE failed
                    /\ UNCHANGED config
            /\ started' = [started EXCEPT
                  !.verified = @ + (IF result.success THEN 1 ELSE 0)]
            /\ UNCHANGED <<callVars, dashVars, sql, queryResult, executing,
                           runs, timers, queryRequests>>

\* the checkbox that is never disabled
ToggleLiveUnguarded ==
    /\ EditBudgetLeft
    /\ started' = [started EXCEPT !.edits = @ + 1]
    /\ config' = [config EXCEPT !.isLive = ~config.isLive]
    /\ UNCHANGED <<callVars, dashVars, sql, queryResult, executing, logs, testStatus,
                   runs, timers, testing, queryRequests>>

\* the Traffic Routing checkbox (disabled unless the last test succeeded or
\* live mode is on)
ToggleLive ==
    /\ testStatus.success = Some(TRUE) \/ config.isLive
    /\ EditBudgetLeft
    /\ started' = [started EXCEPT !.edits = @ + 1]
    /\ config' = [config EXCEPT !.isLive = ~config.isLive]
    /\ UNCHANGED <<callVars, dashVars, sql, queryResult, executing, logs, testStatus,
                   runs, timers, testing, queryRequests>>

\* the Reset Log button
ResetLog ==
    /\ logs # <<>>
    /\ logs' = <<>>
    /\ UNCHANGED <<callVars, dashVars, config, sql, queryResult, executing, testStatus,
                   runs, timers, testing, started, queryRequests>>

\* fetchAIInsights() of the render whose status is st, up to its await:
\* setLoadingInsight(true), then getAIInsights(status) is called
fetchAIInsights(calls, issued, st) ==
    calls \cup { [id |-> issued + 1, status |-> st] }

\* The effects of the mount.  refreshData() sets metrics and a new status,
\* the interval is started, and fetchAIInsights() is called with the status
\* of the first render.  The new status gives fetchAIInsights (useCallback
\* with [status]) a new identity in the next render, so the effect that
\* depends on it calls fetchAIInsights() again, with the new status.
Mount ==
    /\ started.mounts = 0
    /\ \E seed \in MetricSeeds, r \in StatusDraws :
          /\ metrics' = generateRealtimePerformance(MountTime, MetricSource(seed))
          /\ status' = getHTAPStatus(r)
          /\ insightCalls' =
                fetchAIInsights(fetchAIInsights(insightCalls, started.insights, status),
                                started.insights + 1, getHTAPStatus(r))
    /\ loadingInsight' = TRUE
    /\ started' = [started EXCEPT !.mounts = 1, !.insights = @ + 2]
    /\ UNCHANGED <<callVars, config, sql, queryResult, executing, logs, testStatus,
                   runs, timers, testing, queryRequests, insight>>

\* A tick of the interval: the last point of a fresh series replaces the
\* oldest point of metrics, and status is set to a new object.  As at the
\* mount, the new status makes the effect call fetchAIInsights() again.
Tick ==
    /\ started.mounts = 1
    /\ started.ticks < MaxTicks
    /\ \E seed \in MetricSeeds, r \in StatusDraws :
          LET now == MountTime + TickPeriod * (started.ticks + 1)
              next == generateRealtimePerformance(now, MetricSource(seed))[PointCount]
          IN  /\ metrics' = ShiftMetrics(metrics, next)
              /\ status' = getHTAPStatus(r)
              /\ insightCalls' =
                    fetchAIInsights(insightCalls, started.insights, getHTAPStatus(r))
    /\ loadingInsight' = TRUE
    /\ started' = [started EXCEPT !.ticks = @ + 1, !.insights = @ + 1]
    /\ UNCHANGED <<callVars, config, sql, queryResult, executing, logs, testStatus,
                   runs, timers, testing, queryRequests, insight>>

\* the Refresh AI Analysis button (disabled while loadingInsight)
ClickRefreshInsight ==
    /\ started.mounts = 1
    /\ ~loadingInsight
    /\ started.insights < MaxInsights
    /\ insightCalls' = fetchAIInsights(insightCalls, started.insights, status)
    /\ loadingInsight' = TRUE
    /\ started' = [started EXCEPT !.insights = @ + 1]
    /\ UNCHANGED <<callVars, config, sql, queryResult, executing, logs, testStatus,
                   runs, timers, testing, queryRequests, metrics, status, insight>>

\* getAIInsights resolves and fetchAIInsights resumes: setInsight(result),
\* then setLoadingInsight(false)
InsightCompletes ==
    \E c \in insightCalls : \E t \in DashTransports :
        /\ insightCalls' = insightCalls \ {c}
        /\ insight' = Some(getAIInsights(c.status, t).value)
        /\ loadingInsight' = FALSE
        /\ UNCHANGED <<callVars, config, sql, queryResult, executing, logs,
                       testStatus, runs, timers, testing, started, queryRequests,
                       metrics, status>>

(***************************************************************************)
(* SpecDashboard: the dashboard from the first render on: the mount, the   *)
(* ticks of the interval and the insight requests                          *)
(***************************************************************************)
DashboardInit ==
    /\ call = NoCall
    /\ outcome = Pending
    /\ AppInit

DashboardNext ==
    \/ Mount
    \/ Tick
    \/ ClickRefreshInsight
    \/ InsightCompletes

SpecDashboard == DashboardInit /\ [][DashboardNext]_vars

(***************************************************************************)
(* SpecSettings: the connection settings, from the mount of the App on.    *)
(* Every configuration in Configs is reached.                              *)
(***************************************************************************)
SettingsInit ==
    /\ call = NoCall
    /\ outcome = Pending
    /\ AppInit

SettingsNext ==
    \/ EditEndpoint
    \/ EditPublicKey
    \/ EditPrivateKey
    \/ loadSampleCredentials
    \/ ClickTestConnection
    \/ TestCompletes
    \/ ToggleLive
    \/ ResetLog

SpecSettings == SettingsInit /\ [][SettingsNext]_vars

(***************************************************************************)
(* SpecRuns: the SQL Lab.  The session has reached some configuration (by   *)
(* typing credentials and testing the connection) and the log has been     *)
(* reset; queries are then edited and run while the configuration is       *)
(* edited.                                                                 *)
(***************************************************************************)
RunsInit ==
    /\ call = NoCall
    /\ outcome = Pending
    /\ config \in Configs
    /\ sql = InitialSql
    /\ queryResult = None
    /\ executing = FALSE
    /\ logs = <<>>
    /\ testStatus = IF config.isLive
                    THEN [loading |-> FALSE, success |-> Some(TRUE),
                          message |-> Some("Connection successful")]
                    ELSE [loading |-> FALSE, success |-> None, message |-> None]
    /\ runs = {}
    /\ timers = {}
    /\ testing = None
    /\ started = [runs |-> 0, timers |-> 0,
                  tests |-> IF config.isLive THEN 1 ELSE 0, loads |-> 0,
                  edits |-> 0, live |-> 0, mock |-> 0, shown |-> 0, writes |-> 0,
                  verified |-> IF config.isLive THEN 1 ELSE 0,
                  mounts |-> 0, ticks |-> 0, insights |-> 0]
    /\ queryRequests = 0
    /\ DashboardHooks

RunsNext ==
    \/ ClickExecute
    \/ exploreSchema
    \/ TimerFires
    \/ RunMockCompletes
    \/ RunLiveCompletes
    \/ EditSql
    \/ EditEndpoint
    \/ EditPublicKey
    \/ EditPrivateKey
    \/ ToggleLive

SpecRuns == RunsInit /\ [][RunsNext]_vars

\* a step in which handleRunQuery is invoked
RunStarts == started'.runs = started.runs + 1

\* the timer whose callback runs in the step, if one does
FiredTimers == timers \ timers'

\* config and sql of the render whose handleRunQuery the step invokes: the
\* ones the callback of a timer holds, or the current ones
InvokedConfig ==
    IF FiredTimers # {} THEN (CHOOSE t \in FiredTimers : TRUE).config ELSE config
InvokedSql ==
    IF FiredTimers # {} THEN (CHOOSE t \in FiredTimers : TRUE).sql ELSE sql

C20_StaleOverwrites ==
    [][\A r \in runs :
          (r \notin runs' /\ r.id < started.shown) =>
              /\ queryResult' # None
              /\ queryResult'[1].sql = r.sql
              /\ started'.shown = r.id]_vars

\* two runs were started before either completed, both completed with a
\* result, and queryResult holds the result of the first
C20_Witness ==
    /\ runs = {}
    /\ started.runs = 2
    /\ started.shown = 1
    /\ Len(logs) = 4
    /\ logs[1].msg = "Running query..."
    /\ logs[2].msg = "Running query..."
    /\ logs[3].type = "success"
    /\ logs[4].type = "success"
    /\ queryResult # None
    /\ queryResult[1].error = NoError

(***************************************************************************)
(* SpecLog: the diagnostics log.  Earlier in the session the sample        *)
(* credentials were loaded and the connection was tested without success   *)
(* some number of times; sample loads, tests and resets follow.  The       *)
(* counters count from this point of the session on.                       *)
(***************************************************************************)
RECURSIVE FailedTests(_, _)
\* the log prev after k more connection tests that failed
FailedTests(prev, k) ==
    IF k = 0 THEN prev
    ELSE FailedTests(
            addLog(addLog(prev, "info", "Testing endpoint connectivity...", -1, ""),
                   "error", "Failed: ", -1, "Unauthorized"),
            k - 1)

\* the log after n log-writing events: a sample load if n is odd, then
\* failed tests of two entries each
History(n) ==
    FailedTests(IF n % 2 = 1
                THEN addLog(<<>>, "info",
                            "Sample credentials loaded. Note: These are placeholders.",
                            -1, "")
                ELSE <<>>,
                n \div 2)

LogInit ==
    /\ call = NoCall
    /\ outcome = Pending
    /\ config = [SampleConfig EXCEPT !.isLive = FALSE]
    /\ sql = InitialSql
    /\ queryResult = None
    /\ executing = FALSE
    /\ \E n \in 0..MaxHistory :
          /\ logs = History(n)
          /\ testStatus = IF n >= 2
                          THEN [loading |-> FALSE, success |-> Some(FALSE),
                                message |-> Some("Unauthorized")]
                          ELSE [loading |-> FALSE, success |-> None, message |-> None]
    /\ runs = {}
    /\ timers = {}
    /\ testing = None
    /\ started = [runs |-> 0, timers |-> 0, tests |-> 0, loads |-> 0, edits |-> 0,
                  live |-> 0, mock |-> 0, shown |-> 0, writes |-> 0,
                  verified |-> 0, mounts |-> 0, ticks |-> 0, insights |-> 0]
    /\ queryRequests = 0
    /\ DashboardHooks

LogNext ==
    \/ loadSampleCredentials
    \/ ClickTestConnection
    \/ TestCompletes
    \/ ResetLog

SpecLog == LogInit /\ [][LogNext]_vars

\* new is old after m calls of addLog: new ends with m entries and begins
\* with the latest entries of old, at most 25 entries together
Appended(old, new, m) ==
    LET k == Len(new) - m
    IN  /\ Len(new) = (IF Len(old) + m <= 25 THEN Len(old) + m ELSE 25)
        /\ \A i \in 1..k : new[i] = old[Len(old) - k + i]

\* C30: the log holds at most 25 entries; a step that writes the log either
\* empties it (Reset Log) or appends the entries of its addLog calls (one or
\* two) last, dropping as many of the oldest entries as exceed 25 and
\* keeping the others in order.
C30_BoundedFifo ==
    [][/\ Len(logs') <= 25
       /\ logs' # logs =>
             \/ logs' = <<>>
             \/ \E m \in 1..2 : Appended(logs, logs', m)]_vars

\* a sample load during a test, on a full log, has dropped the oldest entry:
\* the log begins with the failure of a test whose start is gone
C30_Witness ==
    /\ Len(logs) = 25
    /\ started.loads = 1
    /\ testing # None
    /\ logs[25].msg = "Sample credentials loaded. Note: These are placeholders."
    /\ logs[24].msg = "Testing endpoint connectivity..."
    /\ logs[1].msg = "Failed: "
    /\ logs[2].msg = "Testing endpoint connectivity..."

(***************************************************************************)
(* SpecResults: every producer of a QueryResult: the calls of runQuery and *)
(* of executeLiveQuery with all their inputs, and the query runs of the    *)
(* SQL Lab.                                                                *)
(***************************************************************************)
ResultsInit == SimInit \/ LiveInit \/ RunsInit

\* the App acts in the sessions, not in the states of a single call
ResultsNext == SimNext \/ LiveNext \/ (call = NoCall /\ RunsNext)

SpecResults == ResultsInit /\ [][ResultsNext]_vars

\* the QueryResults in the state: the one a call returned and the one shown
Produced ==
    (IF outcome.kind = "returns" THEN { outcome.value } ELSE {})
    \cup (IF queryResult # None THEN { queryResult[1] } ELSE {})

\* C5: in every QueryResult produced (runQuery, executeLiveQuery on success
\* and on failure, the fallback of handleRunQuery), if error is set then
\* columns and rows are empty and executionTimeMs is 0.
C5_ErrorMeansEmpty ==
    \A r \in Produced :
        r.error # NoError =>
            /\ r.columns = <<>>
            /\ r.rows = <<>>
            /\ r.executionTimeMs = 0

\* the fallback of handleRunQuery is shown after executeLiveQuery threw
C5_Witness ==
    /\ queryResult # None
    /\ queryResult[1].error = Some("Missing connection credentials")
    /\ queryResult[1].executionTimeMs = 0

\* C6: in every QueryResult produced, isMPP is true if and only if engine is
\* TiFlash.
C6_MppIffTiFlash ==
    \A r \in Produced : r.isMPP <=> (r.engine = "TiFlash")

\* a live success on a text with GROUP BY is shown with TiFlash and isMPP
C6_Witness ==
    /\ queryResult # None
    /\ queryResult[1].columns = <<"id", "v">>
    /\ queryResult[1].sql = InitialSql
    /\ queryResult[1].engine = "TiFlash"
    /\ queryResult[1].isMPP

\* C18: the columns of every QueryResult are pairwise distinct, whatever
\* column list the endpoint returns.
C18_DistinctColumns ==
    \A r \in Produced :
        \A i, j \in 1..Len(r.columns) : r.columns[i] = r.columns[j] => i = j

\* C19: the sql of every QueryResult is the text the operation was called
\* with: the result runQuery or executeLiveQuery returns has the sql of the
\* call, the result a completing run writes to queryResult has the sql of
\* that run, and the fallback written when executeLiveQuery raises has the
\* sql of the handleRunQuery that called it.
C19_SqlUnchanged ==
    [][/\ (call'.fn \in {"runQuery", "executeLiveQuery"} /\ outcome'.kind = "returns")
          => outcome'.value.sql = call'.sql
       /\ \A r \in runs :
             r \notin runs' => queryResult' # None /\ queryResult'[1].sql = r.sql
       /\ (RunStarts /\ started'.shown = started'.runs)
          => queryResult' # None /\ queryResult'[1].sql = InvokedSql]_vars

\* the fallback of a run scheduled by exploreSchema is shown with the text of
\* that run while the editor holds another text
C19_Witness ==
    /\ queryResult # None
    /\ queryResult[1].error = Some("Missing connection credentials")
    /\ queryResult[1].sql = InitialSql
    /\ sql = ShowTables
    /\ started.runs = 1
    /\ started.timers = 1

(***************************************************************************)
(* Claims about the query runs (SpecRuns)                                  *)
(***************************************************************************)
\* C24: a run started in live mode with endpoint, publicKey or privateKey
\* empty ends at once with queryResult the failure-shaped result whose error
\* is 'Missing connection credentials', no HTTP request issued and executing
\* false.
C24_MissingCredentialsRun ==
    [][(/\ RunStarts
        /\ InvokedConfig.isLive
        /\ \/ InvokedConfig.endpoint = ""
           \/ InvokedConfig.publicKey = ""
           \/ InvokedConfig.privateKey = "")
       => /\ queryResult' =
                Some([columns |-> <<>>, rows |-> <<>>, executionTimeMs |-> 0,
                      engine |-> "TiKV", isMPP |-> FALSE, sql |-> InvokedSql,
                      error |-> Some("Missing connection credentials")])
          /\ queryRequests' = queryRequests
          /\ runs' = runs
          /\ ~executing']_vars

\* the Execute button was used in live mode with the private key missing
C24_Witness ==
    /\ config.isLive
    /\ config.endpoint # ""
    /\ config.publicKey # ""
    /\ config.privateKey = ""
    /\ started.runs = 1
    /\ started.timers = 0
    /\ started.live = 1
    /\ runs = {}
    /\ queryRequests = 0
    /\ ~executing
    /\ queryResult # None
    /\ queryResult[1].error = Some("Missing connection credentials")
    /\ queryResult[1].sql = sql

\* C25: the run that exploreSchema schedules executes 'SHOW TABLES;',
\* whatever the editor held before, with the config current when it runs.
C25_ScheduledRunShowsTables ==
    [][(RunStarts /\ FiredTimers # {}) =>
          /\ \A r \in runs' \ runs : r.sql = ShowTables /\ r.config = config
          /\ (runs' = runs) =>
                /\ queryResult' # None
                /\ queryResult'[1].sql = ShowTables]_vars

\* C26: executing is true whenever a run is in flight.
C26_ExecutingWhileInFlight ==
    runs # {} => executing

(***************************************************************************)
(* Claims about the dashboard (SpecDashboard)                              *)
(***************************************************************************)
\* C21: getAIInsights is called only on demand: once at the initial load and
\* once for each click on the refresh button; a tick of the interval never
\* causes a call.
C21_InsightOnDemand ==
    [][\/ started'.insights = started.insights
       \/ /\ started'.insights = started.insights + 1
          /\ started'.ticks = started.ticks]_vars

\* C29: from the first refresh on, metrics holds exactly 11 points; a tick
\* removes the oldest point and appends one new point, the point of the time
\* of the tick, leaving the other 10 unchanged and in the same order.
C29_ElevenPoints ==
    [][/\ started'.mounts = 1 => Len(metrics') = 11
       /\ started'.ticks = started.ticks + 1 =>
             /\ \A i \in 1..10 : metrics'[i] = metrics[i + 1]
             /\ metrics'[11].time =
                   toLocaleTimeString(MountTime + TickPeriod * started'.ticks)
             /\ \A i \in 1..11 : metrics'[11] # metrics[i]]_vars

\* after two ticks the series runs from 8 seconds before the mount to 4
\* seconds after it, past midnight
C29_Witness ==
    /\ started.ticks = 2
    /\ Len(metrics) = 11
    /\ metrics[1].time = [hour |-> 23, minute |-> 59, second |-> 42]
    /\ metrics[9].time = [hour |-> 23, minute |-> 59, second |-> 50]
    /\ metrics[10].time = [hour |-> 23, minute |-> 59, second |-> 52]
    /\ metrics[11].time = [hour |-> 23, minute |-> 59, second |-> 54]

(***************************************************************************)
(* Claims about the connection settings (SpecSettings)                     *)
(***************************************************************************)
\* C23: in every state where config.isLive is true, a connection test has
\* completed with success earlier in the session.
C23_LiveOnlyAfterVerified ==
    config.isLive => started.verified >= 1

\* live mode is on although the last test failed: an earlier test succeeded
C23_Witness ==
    /\ config.isLive
    /\ testStatus.success = Some(FALSE)
    /\ started.tests = 2
    /\ started.verified = 1

\* endpoint, publicKey and privateKey of a config
Credentials(cfg) == <<cfg.endpoint, cfg.publicKey, cfg.privateKey>>

\* C28: whenever a successful connection test switches config.isLive to
\* true, the credentials in config at that moment are the ones the test was
\* run with, also when the fields were edited while the test was in flight.
C28_VerifiedCredentials ==
    [][(/\ testing # None
        /\ testing' = None
        /\ started'.verified = started.verified + 1
        /\ ~config.isLive
        /\ config'.isLive)
       => Credentials(config') = Credentials(testing[1].config)]_vars

(***************************************************************************)
(* SpecHang: the App from the moment the fetch of a live query run has     *)
(* been sent, when that fetch never resolves.  The session before it: the  *)
(* mount and its insight requests (which failed), the sample credentials   *)
(* loaded, the connection verified, Execute SQL clicked.  From then on the *)
(* interval ticks, insight requests and connection tests start and         *)
(* complete, and exploreSchema starts a further run, which completes.  The *)
(* Execute SQL button is disabled at the start, and MaxRuns leaves one     *)
(* further run.                                                            *)
(***************************************************************************)
\* the run whose backend call never resolves
HungRun == 1

Hung(r) == r.id = HungRun

HangInit ==
    /\ call = NoCall
    /\ outcome = Pending
    /\ config = [SampleConfig EXCEPT !.isLive = TRUE]
    /\ sql = InitialSql
    /\ queryResult = None
    /\ executing = TRUE
    /\ logs = addLog(addLog(addLog(addLog(<<>>,
                 "info", "Sample credentials loaded. Note: These are placeholders.", -1, ""),
                 "info", "Testing endpoint connectivity...", -1, ""),
                 "success", "Verified! Data Service responded with 200 OK.", -1, ""),
                 "info", "Running query...", -1, "")
    /\ testStatus = [loading |-> FALSE, success |-> Some(TRUE),
                     message |-> Some("Connection successful")]
    /\ runs = { [id |-> HungRun, backend |-> "live", config |-> config,
                 sql |-> InitialSql] }
    /\ timers = {}
    /\ testing = None
    /\ started = [runs |-> 1, timers |-> 0, tests |-> 1, loads |-> 1, edits |-> 0,
                  live |-> 1, mock |-> 0, shown |-> 0, writes |-> 0,
                  verified |-> 1, mounts |-> 1, ticks |-> 0, insights |-> 2]
    /\ queryRequests = 1
    /\ metrics = generateRealtimePerformance(MountTime, MetricSource(0))
    /\ status = getHTAPStatus(0)
    /\ insight = Some(FallbackInsight)
    /\ loadingInsight = FALSE
    /\ insightCalls = {}

\* executeLiveQuery resolves for a run other than the hung one
OtherRunCompletes == \E r \in runs : ~Hung(r) /\ LiveRunCompletes(r)

HangNext ==
    \/ Tick
    \/ ClickRefreshInsight
    \/ InsightCompletes
    \/ ClickTestConnection
    \/ TestCompletes
    \/ exploreSchema
    \/ TimerFires
    \/ OtherRunCompletes

SpecHang == HangInit /\ [][HangNext]_vars

\* C22: while the backend call of a run never resolves, executing stays true
\* and no result of that run is written to queryResult; the interval keeps
\* ticking, and insight requests and connection tests start and complete.
C22_HungRunBlocksOnlyItself ==
    [][\A r \in runs :
          Hung(r) =>
             /\ r \in runs'
             /\ executing => executing'
             /\ started'.shown # r.id]_vars

(***************************************************************************)
(* Claims about the end of a query run (SpecRuns)                          *)
(***************************************************************************)
\* a step in which the backend call of a run completes: it resolves and
\* handleRunQuery resumes, or it raises when it is called
RunCompletes ==
    \/ runs' # runs /\ runs' \subseteq runs
    \/ RunStarts /\ runs' = runs

\* C27: a query run whose backend call completes, by returning or by
\* raising, sets executing back to false and writes exactly one QueryResult
\* to queryResult.
C27_CompletedRunWritesOnce ==
    [][RunCompletes =>
          /\ executing' = FALSE
          /\ queryResult' # None
          /\ started'.writes = started.writes + 1]_vars
====
